---------------------------- MODULE Spec2Model ----------------------------
(***************************************************************************)
(* State-machine model of the yewtil adapters:                             *)
(*   - Pure<T>            (src/src/pure.rs)                                *)
(*   - PersistFetching    (src/src/fetch/persist_fetching.rs)              *)
(*   - VCompProducer      (src/src/dsl/vcomp.rs)                           *)
(* Option<T> is modelled as a sequence of length at most one: None is <<>> *)
(* and Some(v) is <<v>>.                                                   *)
(***************************************************************************)
EXTENDS Naturals, Sequences, FiniteSets

VARIABLES
    pureMounted,   \* TRUE once Pure::create has run
    pureImpl,      \* which send_message the wrapped T has: "blanket" | "default"
    pureProps,     \* Pure<T>.0, the stored properties
    pureSupplied,  \* history: the properties last handed to create / change
    pfStatus,      \* PersistFetching instance: "none" | "mounted" | "aborted"
    pfProps,       \* PersistFetching.props
    pfSupplied,    \* history: the properties last handed to create / change
    renderCalls,   \* history: invocations <<f, v>> of a boxed render function
    producers,     \* producer id -> state of the deferred producer
    nodes,         \* history: VComp nodes constructed so far, in order
    calls,         \* history: invocations <<cb, m>> of Callback::emit
    last           \* history: the lifecycle call that ran last and what it returned

vars == <<pureMounted, pureImpl, pureProps, pureSupplied, pfStatus, pfProps,
          pfSupplied, renderCalls, producers, nodes, calls, last>>

pureVars == <<pureMounted, pureImpl, pureProps, pureSupplied>>
pfVars == <<pfStatus, pfProps, pfSupplied, renderCalls>>
prodVars == <<producers, nodes>>

----------------------------------------------------------------------------
(* Bounds of the model *)

MaxValue == 2
NumCallbacks == 2
MaxMsg == 2
MaxCalls == 2
NumRenderFns == 2
MaxChildren == 1
NumChildNodes == 2
NumProducers == 2
NumKinds == 2
NumScopes == 2

Values == 1..MaxValue
Callbacks == 1..NumCallbacks
Msgs == 1..MaxMsg
RenderFns == 1..NumRenderFns
ChildNodes == 1..NumChildNodes
ProducerIds == 1..NumProducers
Kinds == 1..NumKinds
Scopes == 1..NumScopes

None == <<>>
Some(v) == <<v>>
IsSome(o) == Len(o) = 1
Unwrapped(o) == o[1]
Option(S) == {None} \cup {Some(v) : v \in S}

----------------------------------------------------------------------------
(* Lifecycle-call record kept in `last` *)

NoNode == [kind |-> "none", fn |-> None, arg |-> None, children |-> <<>>]

Call(op, msg, ret, node) == [op |-> op, msg |-> msg, ret |-> ret, node |-> node]

NoCall == Call("init", None, None, NoNode)

----------------------------------------------------------------------------
(* Pure<T>: src/src/pure.rs *)

\* A properties type T: a comparable payload plus an optional Callback field.
PureProperties == [value : Values, callback : Option(Callbacks)]

\* Callback::emit(msg): one invocation of the remote handler.
CallbackEmit(log, cb, msg) == Append(log, <<cb, msg>>)

\* Emissive::emit as derived: calls the callback field's emit, and does
\* nothing when the type has no callback field.
Emit(props, log, msg) ==
    IF IsSome(props.callback)
    THEN CallbackEmit(log, Unwrapped(props.callback), msg)
    ELSE log

SendMessageAlwaysEmits(impl, props, log, msg) == Emit(props, log, msg)

\* PureEmissiveComponent::send_message: the trait's default body is empty;
\* the blanket impl for T: PureComponent + Emissive forwards to Emissive::emit.
SendMessage(impl, props, log, msg) ==
    IF impl = "blanket" THEN Emit(props, log, msg) ELSE log

\* NeqAssign::neq_assign: assign and report TRUE only when the values differ.
NeqAssign(current, incoming) ==
    IF current # incoming
    THEN [stored |-> incoming, changed |-> TRUE]
    ELSE [stored |-> current, changed |-> FALSE]

\* PureComponent::render / PureEmissiveComponent::render: a node that is a
\* function of the properties alone.
PureRender(props) ==
    [kind |-> "pure", fn |-> None, arg |-> Some(props), children |-> <<>>]

\* Pure::create
PureCreate(props, impl) ==
    /\ ~pureMounted
    /\ pureMounted' = TRUE
    /\ pureImpl' = impl
    /\ pureProps' = props
    /\ pureSupplied' = props
    /\ last' = Call("pure.create", None, None, NoNode)
    /\ UNCHANGED <<pfVars, prodVars, calls>>

PureUpdateNoSend(msg) ==
    /\ pureMounted
    /\ Len(calls) < MaxCalls
    /\ calls' = calls
    /\ last' = Call("pure.update", Some(msg), Some(FALSE), NoNode)
    /\ UNCHANGED <<pureVars, pfVars, prodVars>>

\* Pure::update
PureUpdate(msg) ==
    /\ pureMounted
    /\ Len(calls) < MaxCalls
    /\ calls' = SendMessage(pureImpl, pureProps, calls, msg)
    /\ last' = Call("pure.update", Some(msg), Some(FALSE), NoNode)
    /\ UNCHANGED <<pureVars, pfVars, prodVars>>

PureChangeAlwaysRerender(props) ==
    /\ pureMounted
    /\ pureProps' = props
    /\ pureSupplied' = props
    /\ last' = Call("pure.change", None, Some(TRUE), NoNode)
    /\ UNCHANGED <<pureMounted, pureImpl, pfVars, prodVars, calls>>

PureChangeKeepsOld(props) ==
    /\ pureMounted
    /\ pureProps' = pureProps
    /\ pureSupplied' = props
    /\ last' = Call("pure.change", None, Some(FALSE), NoNode)
    /\ UNCHANGED <<pureMounted, pureImpl, pfVars, prodVars, calls>>

\* Pure::change
PureChange(props) ==
    /\ pureMounted
    /\ pureProps' = NeqAssign(pureProps, props).stored
    /\ pureSupplied' = props
    /\ last' = Call("pure.change", None, Some(NeqAssign(pureProps, props).changed), NoNode)
    /\ UNCHANGED <<pureMounted, pureImpl, pfVars, prodVars, calls>>

\* Pure::view
PureView ==
    /\ pureMounted
    /\ last' = Call("pure.view", None, None, PureRender(pureProps))
    /\ UNCHANGED <<pureVars, pfVars, prodVars, calls>>

----------------------------------------------------------------------------
(* PersistFetching<T, M>: src/src/fetch/persist_fetching.rs *)

ChildrenLists == UNION {[1..n -> ChildNodes] : n \in 0..MaxChildren}

\* PersistFetchingProps: children, render (Render.render), data, callback.
PersistFetchingProps ==
    [children : ChildrenLists, render : Option(RenderFns),
     data : Option(Values), callback : Option(Callbacks)]

\* (render)(&data): the node the boxed render function produces for a value.
Rendered(f, v) ==
    [kind |-> "rendered", fn |-> Some(f), arg |-> Some(v), children |-> <<>>]

\* self.props.children.iter().collect(): the children gathered into one node.
CollectChildren(children) ==
    [kind |-> "list", fn |-> None, arg |-> None, children |-> children]

\* PersistFetching::create
PFCreate(props) ==
    /\ pfStatus = "none"
    /\ pfStatus' = "mounted"
    /\ pfProps' = props
    /\ pfSupplied' = props
    /\ last' = Call("pf.create", None, None, NoNode)
    /\ UNCHANGED <<pureVars, prodVars, renderCalls, calls>>

PFUpdateDropsData(msg) ==
    /\ pfStatus = "mounted"
    /\ Len(calls) < MaxCalls
    /\ calls' = IF IsSome(pfProps.callback)
                THEN CallbackEmit(calls, Unwrapped(pfProps.callback), msg)
                ELSE calls
    /\ pfProps' = [pfProps EXCEPT !.data = None]
    /\ last' = Call("pf.update", Some(msg), Some(FALSE), NoNode)
    /\ UNCHANGED <<pureVars, prodVars, pfStatus, pfSupplied, renderCalls>>

PFUpdateRerenders(msg) ==
    /\ pfStatus = "mounted"
    /\ Len(calls) < MaxCalls
    /\ calls' = IF IsSome(pfProps.callback)
                THEN CallbackEmit(calls, Unwrapped(pfProps.callback), msg)
                ELSE calls
    /\ last' = Call("pf.update", Some(msg), Some(IsSome(pfProps.render)), NoNode)
    /\ UNCHANGED <<pureVars, prodVars, pfVars>>

PFUpdateUnwrapsCallback(msg) ==
    /\ pfStatus = "mounted"
    /\ Len(calls) < MaxCalls
    /\ IF IsSome(pfProps.callback)
       THEN /\ calls' = CallbackEmit(calls, Unwrapped(pfProps.callback), msg)
            /\ pfStatus' = pfStatus
            /\ last' = Call("pf.update", Some(msg), Some(FALSE), NoNode)
       ELSE /\ calls' = calls
            /\ pfStatus' = "aborted"
            /\ last' = Call("pf.update", Some(msg), None, NoNode)
    /\ UNCHANGED <<pureVars, prodVars, pfProps, pfSupplied, renderCalls>>

\* PersistFetching::update
PFUpdate(msg) ==
    /\ pfStatus = "mounted"
    /\ Len(calls) < MaxCalls
    /\ calls' = IF IsSome(pfProps.callback)
                THEN CallbackEmit(calls, Unwrapped(pfProps.callback), msg)
                ELSE calls
    /\ last' = Call("pf.update", Some(msg), Some(FALSE), NoNode)
    /\ UNCHANGED <<pureVars, prodVars, pfVars>>

\* Component::change is not overridden by PersistFetching: the call reaches
\* the host trait's default body, which aborts; props are never reassigned.
PFChange(props) ==
    /\ pfStatus = "mounted"
    /\ pfStatus' = "aborted"
    /\ pfSupplied' = props
    /\ last' = Call("pf.change", None, None, NoNode)
    /\ UNCHANGED <<pureVars, prodVars, pfProps, renderCalls, calls>>

PFViewBranchesOnData ==
    /\ pfStatus = "mounted"
    /\ (IsSome(pfProps.render) /\ IsSome(pfProps.data)) => Len(renderCalls) < MaxCalls
    /\ IF IsSome(pfProps.data)
       THEN IF IsSome(pfProps.render)
            THEN /\ renderCalls' = Append(renderCalls,
                         <<Unwrapped(pfProps.render), Unwrapped(pfProps.data)>>)
                 /\ pfStatus' = pfStatus
                 /\ last' = Call("pf.view", None, None,
                         Rendered(Unwrapped(pfProps.render), Unwrapped(pfProps.data)))
            ELSE /\ renderCalls' = renderCalls
                 /\ pfStatus' = "aborted"
                 /\ last' = Call("pf.view", None, None, NoNode)
       ELSE /\ renderCalls' = renderCalls
            /\ pfStatus' = pfStatus
            /\ last' = Call("pf.view", None, None, CollectChildren(pfProps.children))
    /\ UNCHANGED <<pureVars, prodVars, pfProps, pfSupplied, calls>>

PFViewFallsBackToChildren ==
    /\ pfStatus = "mounted"
    /\ (IsSome(pfProps.render) /\ IsSome(pfProps.data)) => Len(renderCalls) < MaxCalls
    /\ IF IsSome(pfProps.render) /\ IsSome(pfProps.data)
       THEN /\ renderCalls' = Append(renderCalls,
                    <<Unwrapped(pfProps.render), Unwrapped(pfProps.data)>>)
            /\ last' = Call("pf.view", None, None,
                    Rendered(Unwrapped(pfProps.render), Unwrapped(pfProps.data)))
       ELSE /\ renderCalls' = renderCalls
            /\ last' = Call("pf.view", None, None, CollectChildren(pfProps.children))
    /\ UNCHANGED <<pureVars, prodVars, pfStatus, pfProps, pfSupplied, calls>>

\* PersistFetching::view
PFView ==
    /\ pfStatus = "mounted"
    /\ (IsSome(pfProps.render) /\ IsSome(pfProps.data)) => Len(renderCalls) < MaxCalls
    /\ IF IsSome(pfProps.render)
       THEN IF IsSome(pfProps.data)
            THEN /\ renderCalls' = Append(renderCalls,
                         <<Unwrapped(pfProps.render), Unwrapped(pfProps.data)>>)
                 /\ pfStatus' = pfStatus
                 /\ last' = Call("pf.view", None, None,
                         Rendered(Unwrapped(pfProps.render), Unwrapped(pfProps.data)))
            ELSE \* Option::unwrap on None panics before the call is made
                 /\ renderCalls' = renderCalls
                 /\ pfStatus' = "aborted"
                 /\ last' = Call("pf.view", None, None, NoNode)
       ELSE /\ renderCalls' = renderCalls
            /\ pfStatus' = pfStatus
            /\ last' = Call("pf.view", None, None, CollectChildren(pfProps.children))
    /\ UNCHANGED <<pureVars, prodVars, pfProps, pfSupplied, calls>>

----------------------------------------------------------------------------
(* VCompProducer<COMP>: src/src/dsl/vcomp.rs *)

\* CHILD::Properties values captured by a producer.
ChildProps == Values

Idle == [state |-> "none", kind |-> None, props |-> None, scope |-> None]

\* VComp::new::<CHILD>(props, scope)
VCompNew(id, kind, props, scope) ==
    [producer |-> id, tag |-> kind, props |-> props, scope |-> scope]

VCompProducerNewEager(id, kind, props) ==
    /\ producers[id].state = "none"
    /\ producers' = [producers EXCEPT ![id] =
           [state |-> "producer", kind |-> Some(kind), props |-> Some(props),
            scope |-> None]]
    /\ nodes' = Append(nodes, VCompNew(id, kind, props, 1))
    /\ last' = Call("producer.new", None, None, NoNode)
    /\ UNCHANGED <<pureVars, pfVars, calls>>

\* VCompProducer::new::<CHILD>(props): boxes a closure holding props.
VCompProducerNew(id, kind, props) ==
    /\ producers[id].state = "none"
    /\ producers' = [producers EXCEPT ![id] =
           [state |-> "producer", kind |-> Some(kind), props |-> Some(props),
            scope |-> None]]
    /\ nodes' = nodes
    /\ last' = Call("producer.new", None, None, NoNode)
    /\ UNCHANGED <<pureVars, pfVars, calls>>

\* From<VCompProducer<COMP>> for BoxedVNodeProducer<COMP>: moves the
\* producer into a new closure; nothing is run.
VCompProducerInto(id) ==
    /\ producers[id].state = "producer"
    /\ producers' = [producers EXCEPT ![id].state = "boxed"]
    /\ last' = Call("producer.into", None, None, NoNode)
    /\ UNCHANGED <<pureVars, pfVars, nodes, calls>>

\* The wrapped closure run with a scope: (vcomp_prod.0)(scope).into().
\* Both closures are FnOnce, so running them consumes the producer.
Bind(id, scope) ==
    /\ producers[id].state = "boxed"
    /\ producers' = [producers EXCEPT ![id].state = "consumed",
                                       ![id].scope = Some(scope)]
    /\ nodes' = Append(nodes, VCompNew(id, Unwrapped(producers[id].kind),
                                       Unwrapped(producers[id].props), scope))
    /\ last' = Call("producer.bind", None, None, NoNode)
    /\ UNCHANGED <<pureVars, pfVars, calls>>

----------------------------------------------------------------------------
(* Specifications *)

Init ==
    /\ pureMounted = FALSE
    /\ pureImpl = "default"
    /\ pureProps = [value |-> 1, callback |-> None]
    /\ pureSupplied = [value |-> 1, callback |-> None]
    /\ pfStatus = "none"
    /\ pfProps = [children |-> <<>>, render |-> None, data |-> None, callback |-> None]
    /\ pfSupplied = [children |-> <<>>, render |-> None, data |-> None, callback |-> None]
    /\ renderCalls = <<>>
    /\ producers = [id \in ProducerIds |-> Idle]
    /\ nodes = <<>>
    /\ calls = <<>>
    /\ last = NoCall

NextPure ==
    \/ \E props \in PureProperties, impl \in {"blanket", "default"} : PureCreate(props, impl)
    \/ \E msg \in Msgs : PureUpdate(msg)
    \/ \E props \in PureProperties : PureChange(props)
    \/ PureView

NextPersist ==
    \/ \E props \in PersistFetchingProps : PFCreate(props)
    \/ \E msg \in Msgs : PFUpdate(msg)
    \/ \E data \in Option(Values) : PFChange([pfProps EXCEPT !.data = data])
    \/ PFView

NextProducer ==
    \/ \E id \in ProducerIds, kind \in Kinds, props \in ChildProps :
          VCompProducerNew(id, kind, props)
    \/ \E id \in ProducerIds : VCompProducerInto(id)
    \/ \E id \in ProducerIds, scope \in Scopes : Bind(id, scope)

\* One wrapper instance of either kind under the host at a time.
NextEmission ==
    \/ /\ pfStatus = "none"
       /\ \E props \in PureProperties, impl \in {"blanket", "default"} :
              PureCreate(props, impl)
    \/ /\ pfStatus = "none"
       /\ \E msg \in Msgs : PureUpdate(msg)
    \/ /\ pfStatus = "none"
       /\ \E props \in PureProperties : PureChange(props)
    \/ /\ pfStatus = "none"
       /\ PureView
    \/ /\ ~pureMounted
       /\ \E props \in PersistFetchingProps : PFCreate(props)
    \/ /\ ~pureMounted
       /\ \E msg \in Msgs : PFUpdate(msg)
    \/ /\ ~pureMounted
       /\ \E data \in Option(Values) : PFChange([pfProps EXCEPT !.data = data])
    \/ /\ ~pureMounted
       /\ PFView

SpecPure == Init /\ [][NextPure]_vars
SpecPersist == Init /\ [][NextPersist]_vars
SpecProducer == Init /\ [][NextProducer]_vars
SpecEmission == Init /\ [][NextEmission]_vars

----------------------------------------------------------------------------
(* Properties *)

\* C1: Pure::change returns TRUE exactly when the incoming properties differ
\* from the stored ones; equal properties leave the stored value as it was,
\* different ones replace it.
C1_ChangeIsEqualityGated ==
    [][last'.op = "pure.change" =>
         /\ last'.ret = Some(pureSupplied' # pureProps)
         /\ (pureSupplied' = pureProps => pureProps' = pureProps)
         /\ (pureSupplied' # pureProps => pureProps' = pureSupplied')]_vars

C1_Witness ==
    /\ last.op = "pure.change"
    /\ last.ret = Some(TRUE)
    /\ pureProps = [value |-> 2, callback |-> Some(1)]

C3_PersistUpdateEmitsOnce ==
    [][(last'.op = "pf.update" /\ IsSome(pfProps.callback)) =>
         /\ calls' = Append(calls, <<Unwrapped(pfProps.callback), Unwrapped(last'.msg)>>)
         /\ last'.ret = Some(FALSE)]_vars

C3_Witness ==
    /\ last.op = "pf.update"
    /\ IsSome(pfProps.callback)
    /\ IsSome(pfProps.render)
    /\ pfProps.data = None
    /\ Len(calls) = 1
    /\ last.ret = Some(FALSE)

\* C4: PersistFetching::view yields f(v) when render is Some(f) and data is
\* Some(v), and the collected children when render is None, with data
\* present or absent.
C4_ViewBranches ==
    (last.op = "pf.view") =>
        /\ (IsSome(pfProps.render) /\ IsSome(pfProps.data)) =>
               /\ last.node.kind = "rendered"
               /\ last.node.fn = pfProps.render
               /\ last.node.arg = pfProps.data
        /\ (pfProps.render = None) =>
               /\ last.node.kind = "list"
               /\ last.node.children = pfProps.children
               /\ pfStatus = "mounted"

C4_Witness ==
    /\ last.op = "pf.view"
    /\ pfProps.render = None
    /\ IsSome(pfProps.data)
    /\ last.node.kind = "list"
    /\ Len(last.node.children) = 1

\* C5: creating a producer constructs no node; binding it yields one node
\* carrying the captured kind and properties and the given scope, and a
\* producer never yields more than one node.
C5_ProducerDefersAndBindsOnce ==
    \A id \in ProducerIds :
        LET mine == {i \in DOMAIN nodes : nodes[i].producer = id}
        IN  /\ producers[id].state # "consumed" => mine = {}
            /\ producers[id].state = "consumed" =>
                   /\ Cardinality(mine) = 1
                   /\ \A i \in mine :
                          /\ Some(nodes[i].tag) = producers[id].kind
                          /\ Some(nodes[i].props) = producers[id].props
                          /\ Some(nodes[i].scope) = producers[id].scope

C5_Witness ==
    /\ producers[1].state = "consumed"
    /\ producers[2].state = "boxed"
    /\ Len(nodes) = 1
    /\ nodes[1].scope = 2

\* C6: with no callback registered, PersistFetching::update invokes nothing,
\* returns FALSE and leaves the instance mounted; Pure::update on a T that
\* keeps the default send_message invokes nothing and returns FALSE.
C6_NoCallbackIsNoOp ==
    [][/\ (last'.op = "pf.update" /\ pfProps.callback = None) =>
            /\ calls' = calls
            /\ last'.ret = Some(FALSE)
            /\ pfStatus' = "mounted"
            /\ pfProps' = pfProps
       /\ (last'.op = "pure.update" /\ pureImpl = "default") =>
            /\ calls' = calls
            /\ last'.ret = Some(FALSE)
            /\ pureProps' = pureProps]_vars

C6_Witness ==
    /\ last.op = "pf.update"
    /\ pfProps.callback = None
    /\ pfStatus = "mounted"
    /\ calls = <<>>

\* C7: PersistFetching::view with render present and data absent aborts
\* without calling the render function and without producing a node.
C7_ViewWithoutDataAborts ==
    [][(last'.op = "pf.view" /\ IsSome(pfProps.render) /\ pfProps.data = None) =>
         /\ pfStatus' = "aborted"
         /\ renderCalls' = renderCalls
         /\ last'.node = NoNode]_vars

C7_Witness ==
    /\ last.op = "pf.view"
    /\ pfStatus = "aborted"
    /\ IsSome(pfProps.render)
    /\ pfProps.data = None

\* C8: after new properties carrying data are supplied to a mounted
\* PersistFetching, the instance holds them, is still mounted, and a
\* re-render was requested.
C8_ChangeAdoptsProps ==
    (last.op = "pf.change" /\ IsSome(pfSupplied.data)) =>
        /\ pfStatus = "mounted"
        /\ pfProps = pfSupplied
        /\ last.ret = Some(TRUE)

\* C9: PersistFetching::update and PersistFetching::view leave children,
\* render, data and callback as they were, and no step on a created instance
\* changes data.
C9_PropsReadOnly ==
    [][/\ (last'.op \in {"pf.update", "pf.view"}) => pfProps' = pfProps
       /\ (pfStatus # "none") => pfProps'.data = pfProps.data]_vars

C9_Witness ==
    /\ last.op = "pf.view"
    /\ Len(calls) = 1
    /\ Len(renderCalls) = 1
    /\ IsSome(pfProps.data)

\* C10: the stored properties of Pure are the ones last supplied by create
\* or change; update and view leave them alone, and view renders them.
C10_StoredIsLatestSupplied ==
    [][/\ pureMounted' => pureProps' = pureSupplied'
       /\ (last'.op \in {"pure.update", "pure.view"}) => pureProps' = pureProps
       /\ (last'.op = "pure.view") => last'.node.arg = Some(pureSupplied')]_vars

C10_Witness ==
    /\ last.op = "pure.view"
    /\ pureProps = [value |-> 2, callback |-> None]
    /\ last.node.arg = Some(pureProps)
    /\ Len(calls) = 1

=============================================================================
